---- MODULE Spec2Model ----
(***************************************************************************)
(* Model of the @for-the-people/data repository: the DataService (table    *)
(* and id validation, TTL cache, error wrapping), the in-memory adapter    *)
(* behind the DataAdapter interface, and the rate-limit middleware.        *)
(*                                                                         *)
(* Strings are sequences of one-character strings, so that the regular     *)
(* expressions, the cache key concatenation and startsWith are computed    *)
(* character by character.  An optional value (T | null, T | undefined) is *)
(* a sequence of length 0 or 1.  A record is a function from field names   *)
(* to values.                                                              *)
(***************************************************************************)
EXTENDS Bags, FiniteSets, Integers, Sequences, TLC

(***************************************************************************)
(* Bounds of the model.                                                    *)
(***************************************************************************)
MaxTime == 2
MaxCreates == 2
MaxPending == 1
MaxRacing == 2
MaxReject == 2
MaxInflight == 2
MaxRecords == 3

(***************************************************************************)
(* Configurations the model is run with.                                   *)
(***************************************************************************)
Ttl == 1
RlMaxRequests == 2
RlWindowMs == 1

(***************************************************************************)
(* Characters and strings.                                                 *)
(***************************************************************************)
Lower == {"a","b","c","d","e","f","g","h","i","j","k","l","m",
          "n","o","p","q","r","s","t","u","v","w","x","y","z"}
Upper == {"A","B","C","D","E","F","G","H","I","J","K","L","M",
          "N","O","P","Q","R","S","T","U","V","W","X","Y","Z"}
Digit == {"0","1","2","3","4","5","6","7","8","9"}
DigitChar == <<"1","2","3","4","5","6","7","8","9">>

Null == <<>>
Some(v) == <<v>>

StartsWith(s, prefix) ==
  /\ Len(prefix) <= Len(s)
  /\ \A n \in 1..Len(prefix) : s[n] = prefix[n]

\* the character classes [a-zA-Z_], [a-zA-Z0-9_] and [a-zA-Z0-9_-]
NameStart == Lower \cup Upper \cup {"_"}
NameChar == Lower \cup Upper \cup Digit \cup {"_"}
IdChar == Lower \cup Upper \cup Digit \cup {"_", "-"}

\* /^[a-zA-Z_][a-zA-Z0-9_]{0,63}$/
TABLE_NAME_RE_63(s) ==
  /\ Len(s) >= 1
  /\ s[1] \in NameStart
  /\ Len(s) - 1 <= 63
  /\ \A n \in 2..Len(s) : s[n] \in NameChar

\* /^[a-zA-Z_][a-zA-Z0-9_]{0,62}$/
TABLE_NAME_RE(s) ==
  /\ Len(s) >= 1
  /\ s[1] \in NameStart
  /\ Len(s) - 1 <= 62
  /\ \A n \in 2..Len(s) : s[n] \in NameChar

\* /^[a-zA-Z0-9_-]{1,255}$/
ID_RE(s) ==
  /\ Len(s) >= 1
  /\ Len(s) <= 255
  /\ \A n \in 1..Len(s) : s[n] \in IdChar

(***************************************************************************)
(* Inputs: table names, ids, payloads, filters.                            *)
(***************************************************************************)
TblA == <<"a">>
TblAB == <<"a", "b">>
TblBad == <<"a", ":", "m">>
TableInputs == {TblA, TblAB, TblBad}

IdBad == <<"m", ":", "1">>
IdUnknown == <<"z">>

DataInputs == { [val |-> 0], [val |-> 1, id |-> IdUnknown] }

FilterInputs ==
  { <<>>,
    << [field |-> "val", operator |-> "eq", value |-> 1] >>,
    << [field |-> "val", operator |-> "gte", value |-> 0],
       [field |-> "val", operator |-> "lt", value |-> 1] >>,
    << [field |-> "nope", operator |-> "neq", value |-> 1] >> }

(***************************************************************************)
(* State.                                                                  *)
(***************************************************************************)
VARIABLES
  now,             \* Date.now()
  counter,         \* ids handed out by uuid()
  tables,          \* InMemoryAdapter.tables: table name -> sequence of records
  cache,           \* DataService.cache: key -> [data, expiresAt]
  cacheTtlMs,      \* DataService.cacheTtlMs
  allowedTables,   \* DataService.allowedTables (optional list)
  pending,         \* bag of the calls suspended at their await, each with
                   \* the answer its adapter promise settles with
  ev,              \* the step just taken, as its caller and the adapter saw it
  fetchedAt,       \* history: key -> when a findOne last fetched its record
                   \* from the adapter, with no mutation begun or resolved since
  deleted,         \* history: <<table, id>> the adapter's delete has removed
  maxRequests,     \* rate limiter: the maxRequests of the middleware
  windowMs,        \* rate limiter: the windowMs of the middleware
  store,           \* rate limiter: client key -> [count, resetAt]
  inflight,        \* rate limiter: requests inside the downstream handler
  forwarded,       \* per key: start of its window, requests forwarded in it
  unswept,         \* history: the store of the same limiter had the cleanup
                   \* timer never fired
  rlEv,            \* rate limiter: the step just taken
  res              \* the last HTTP response, or the last result of a direct call

svcVars == <<counter, tables, cache, cacheTtlMs, allowedTables, pending, ev,
             fetchedAt, deleted>>
rlVars == <<maxRequests, windowMs, store, inflight, forwarded, unswept, rlEv>>
vars == <<now, counter, tables, cache, cacheTtlMs, allowedTables, pending, ev,
          fetchedAt, deleted,
          maxRequests, windowMs, store, inflight, forwarded, unswept,
          rlEv, res>>

(***************************************************************************)
(* Records and maps.                                                       *)
(***************************************************************************)
EmptyMap == [k \in {} |-> 0]
Put(m, k, v) == [x \in DOMAIN m \cup {k} |-> IF x = k THEN v ELSE m[x]]
Remove(m, k) == [x \in DOMAIN m \ {k} |-> m[x]]

\* { ...a, ...b }
Spread(a, b) ==
  [f \in DOMAIN a \cup DOMAIN b |-> IF f \in DOMAIN b THEN b[f] ELSE a[f]]

\* new Date().toISOString() at clock reading t
ToISOString(t) == <<"iso", t>>

\* uuid(): a fresh identifier for every call
uuid(n) == <<"m", "-", DigitChar[n]>>

\* Array.prototype.filter
RECURSIVE SelectSeqBy(_, _)
SelectSeqBy(s, keep) ==
  IF s = <<>> THEN <<>>
  ELSE IF keep[1] THEN <<Head(s)>> \o SelectSeqBy(Tail(s), Tail(keep))
       ELSE SelectSeqBy(Tail(s), Tail(keep))

\* Array.prototype.findIndex(r => r.id === id), 0 for JavaScript's -1
FindIndex(records, id) ==
  IF \E n \in 1..Len(records) : records[n].id = id
  THEN CHOOSE n \in 1..Len(records) :
         /\ records[n].id = id
         /\ \A m \in 1..(n - 1) : records[m].id # id
  ELSE 0

\* Array.prototype.splice(idx, 1)
Splice(records, idx) ==
  [n \in 1..(Len(records) - 1) |-> IF n < idx THEN records[n] ELSE records[n + 1]]

\* Array.prototype.slice(from, to) with 0-based bounds, from >= 0, to >= 0
Slice(s, from, to) ==
  LET hi == IF to < Len(s) THEN to ELSE Len(s)
  IN  IF from >= hi THEN <<>> ELSE [n \in 1..(hi - from) |-> s[from + n]]

(***************************************************************************)
(* InMemoryAdapter.                                                        *)
(***************************************************************************)
\* getTable: every access to a table goes through it, and a table that is
\* not yet in the Map reads as [], so the Map is kept as a function on the
\* table names that pass validation
getTable(tbls, table) == tbls

Records(tbls, table) == getTable(tbls, table)[table]

\* String.prototype.includes
Includes(s, sub) ==
  \E k \in 0..(Len(s) - Len(sub)) : SubSeq(s, k + 1, k + Len(sub)) = sub

\* String.prototype.replace(/%/g, '')
StripPercent(s) == SelectSeqBy(s, [n \in 1..Len(s) |-> s[n] # "%"])

\* String.prototype.toLowerCase on the letters a-z, A-Z
LowerOf ==
  [c \in Upper |->
     CASE c = "A" -> "a" [] c = "B" -> "b" [] c = "C" -> "c" [] c = "D" -> "d"
       [] c = "E" -> "e" [] c = "F" -> "f" [] c = "G" -> "g" [] c = "H" -> "h"
       [] c = "I" -> "i" [] c = "J" -> "j" [] c = "K" -> "k" [] c = "L" -> "l"
       [] c = "M" -> "m" [] c = "N" -> "n" [] c = "O" -> "o" [] c = "P" -> "p"
       [] c = "Q" -> "q" [] c = "R" -> "r" [] c = "S" -> "s" [] c = "T" -> "t"
       [] c = "U" -> "u" [] c = "V" -> "v" [] c = "W" -> "w" [] c = "X" -> "x"
       [] c = "Y" -> "y" [] c = "Z" -> "z"]
toLowerCase(s) == [n \in 1..Len(s) |-> IF s[n] \in Upper THEN LowerOf[s[n]] ELSE s[n]]

\* String(undefined)
Undefined == <<"u", "n", "d", "e", "f", "i", "n", "e", "d">>

\* one filter evaluated on one record; a missing field reads as undefined;
\* like and ilike are evaluated on fields that hold strings
FilterHolds(r, f) ==
  LET has == f.field \in DOMAIN r
  IN  CASE f.operator = "eq"  -> has /\ r[f.field] = f.value
        [] f.operator = "neq" -> ~has \/ r[f.field] # f.value
        [] f.operator = "gt"  -> has /\ r[f.field] > f.value
        [] f.operator = "gte" -> has /\ r[f.field] >= f.value
        [] f.operator = "lt"  -> has /\ r[f.field] < f.value
        [] f.operator = "lte" -> has /\ r[f.field] <= f.value
        [] f.operator = "like" ->
             Includes(IF has THEN r[f.field] ELSE Undefined, StripPercent(f.value))
        [] f.operator = "ilike" ->
             Includes(toLowerCase(IF has THEN r[f.field] ELSE Undefined),
                      toLowerCase(StripPercent(f.value)))
        [] f.operator = "in"  -> has /\ \E n \in 1..Len(f.value) : f.value[n] = r[f.field]
        [] f.operator = "is"  -> has /\ r[f.field] = f.value
        [] OTHER -> TRUE

applyFilters(records, filters) ==
  IF Len(filters) = 0 THEN records
  ELSE SelectSeqBy(records,
         [n \in 1..Len(records) |->
            \A m \in 1..Len(filters) : FilterHolds(records[n], filters[m])])

\* the comparator of findMany: the first differing key decides
RECURSIVE Compare(_, _, _)
Compare(a, b, orderBy) ==
  IF orderBy = <<>> THEN 0
  ELSE LET o == Head(orderBy)
           ha == o.field \in DOMAIN a
           hb == o.field \in DOMAIN b
       IN  IF (~ha /\ ~hb) \/ (ha /\ hb /\ a[o.field] = b[o.field])
           THEN Compare(a, b, Tail(orderBy))
           ELSE LET cmp == IF ha /\ hb /\ a[o.field] < b[o.field] THEN -1 ELSE 1
                IN  IF o.direction = "desc" THEN -cmp ELSE cmp

\* Array.prototype.sort is stable: insertion after the last element not greater
RECURSIVE InsertSorted(_, _, _)
InsertSorted(x, sorted, orderBy) ==
  IF sorted = <<>> THEN <<x>>
  ELSE IF Compare(Head(sorted), x, orderBy) <= 0
       THEN <<Head(sorted)>> \o InsertSorted(x, Tail(sorted), orderBy)
       ELSE <<x>> \o sorted

RECURSIVE SortRecords(_, _)
SortRecords(records, orderBy) ==
  IF records = <<>> THEN <<>>
  ELSE InsertSorted(records[Len(records)],
                    SortRecords(SubSeq(records, 1, Len(records) - 1), orderBy),
                    orderBy)

\* the answer of an adapter call: the new tables, and what its promise settles
\* with: the error code when rejected, else the records, number and page
\* fields (limit, offset, hasMore) of the result
Answer(tbls, cnt, ok, code, value, num, page) ==
  [tables |-> tbls, counter |-> cnt, ok |-> ok, code |-> code, value |-> value,
   num |-> num, page |-> page]

\* findMany that counts the page instead of the matching records
AdapterFindManyPageCount(tbls, cnt, table, options) ==
  LET filters == IF "filters" \in DOMAIN options THEN options.filters ELSE <<>>
      orderBy == IF "orderBy" \in DOMAIN options THEN options.orderBy ELSE <<>>
      filtered == applyFilters(Records(tbls, table), filters)
      records == IF Len(orderBy) > 0 THEN SortRecords(filtered, orderBy) ELSE filtered
      total == Len(records)
      offset == IF "offset" \in DOMAIN options THEN options.offset ELSE 0
      limit == IF "limit" \in DOMAIN options THEN options.limit ELSE 50
      data == Slice(records, offset, offset + limit)
  IN  Answer(getTable(tbls, table), cnt, TRUE, "", data, Len(data),
             <<limit, offset, offset + limit < total>>)

\* findMany whose hasMore is offset + limit <= total
AdapterFindManyLe(tbls, cnt, table, options) ==
  LET filters == IF "filters" \in DOMAIN options THEN options.filters ELSE <<>>
      orderBy == IF "orderBy" \in DOMAIN options THEN options.orderBy ELSE <<>>
      filtered == applyFilters(Records(tbls, table), filters)
      records == IF Len(orderBy) > 0 THEN SortRecords(filtered, orderBy) ELSE filtered
      total == Len(records)
      offset == IF "offset" \in DOMAIN options THEN options.offset ELSE 0
      limit == IF "limit" \in DOMAIN options THEN options.limit ELSE 50
      data == Slice(records, offset, offset + limit)
  IN  Answer(getTable(tbls, table), cnt, TRUE, "", data, total,
             <<limit, offset, offset + limit <= total>>)

AdapterFindMany(tbls, cnt, table, options) ==
  LET filters == IF "filters" \in DOMAIN options THEN options.filters ELSE <<>>
      orderBy == IF "orderBy" \in DOMAIN options THEN options.orderBy ELSE <<>>
      filtered == applyFilters(Records(tbls, table), filters)
      records == IF Len(orderBy) > 0 THEN SortRecords(filtered, orderBy) ELSE filtered
      total == Len(records)
      offset == IF "offset" \in DOMAIN options THEN options.offset ELSE 0
      limit == IF "limit" \in DOMAIN options THEN options.limit ELSE 50
      data == Slice(records, offset, offset + limit)
  IN  Answer(getTable(tbls, table), cnt, TRUE, "", data, total,
             <<limit, offset, offset + limit < total>>)

AdapterFindOne(tbls, cnt, table, id) ==
  LET records == Records(tbls, table)
      idx == FindIndex(records, id)
  IN  Answer(getTable(tbls, table), cnt, TRUE, "",
             IF idx = 0 THEN Null ELSE Some(records[idx]), 0, <<>>)

AdapterCreate(tbls, cnt, table, data, time) ==
  LET record == Spread(data, [id |-> uuid(cnt + 1),
                              created_at |-> ToISOString(time),
                              updated_at |-> ToISOString(time)])
  IN  Answer(Put(tbls, table, Append(Records(tbls, table), record)), cnt + 1,
             TRUE, "", <<record>>, 0, <<>>)

\* createMany whose creates take effect last item first, the results still
\* collected by position
RECURSIVE AdapterCreateManyLastFirst(_, _, _, _, _)
AdapterCreateManyLastFirst(tbls, cnt, table, items, time) ==
  IF items = <<>> THEN Answer(tbls, cnt, TRUE, "", <<>>, 0, <<>>)
  ELSE LET rest == AdapterCreateManyLastFirst(tbls, cnt, table, Tail(items), time)
           first == AdapterCreate(rest.tables, rest.counter, table, Head(items), time)
       IN  Answer(first.tables, first.counter, TRUE, "",
                  first.value \o rest.value, 0, <<>>)

\* Promise.all(items.map(d => this.create(table, d))): the creates run in
\* input order, each to completion, when map calls them
RECURSIVE AdapterCreateMany(_, _, _, _, _)
AdapterCreateMany(tbls, cnt, table, items, time) ==
  IF items = <<>> THEN Answer(tbls, cnt, TRUE, "", <<>>, 0, <<>>)
  ELSE LET first == AdapterCreate(tbls, cnt, table, Head(items), time)
           rest == AdapterCreateMany(first.tables, first.counter, table,
                                     Tail(items), time)
       IN  Answer(rest.tables, rest.counter, TRUE, "",
                  first.value \o rest.value, 0, <<>>)

\* update that lets the id of the data through
AdapterUpdateSpread(tbls, cnt, table, id, data, time) ==
  LET records == Records(tbls, table)
      idx == FindIndex(records, id)
  IN  IF idx = 0
      THEN Answer(getTable(tbls, table), cnt, FALSE, "NOT_FOUND", Null, 0, <<>>)
      ELSE LET existing == records[idx]
               updated == Spread(Spread(existing, data),
                                 [updated_at |-> ToISOString(time)])
           IN  Answer(Put(tbls, table, [records EXCEPT ![idx] = updated]), cnt,
                      TRUE, "", Some(updated), 0, <<>>)

AdapterUpdate(tbls, cnt, table, id, data, time) ==
  LET records == Records(tbls, table)
      idx == FindIndex(records, id)
  IN  IF idx = 0
      THEN Answer(getTable(tbls, table), cnt, FALSE, "NOT_FOUND", Null, 0, <<>>)
      ELSE LET existing == records[idx]
               updated == Spread(Spread(existing, data),
                                 [id |-> existing.id,
                                  updated_at |-> ToISOString(time)])
           IN  Answer(Put(tbls, table, [records EXCEPT ![idx] = updated]), cnt,
                      TRUE, "", Some(updated), 0, <<>>)

\* delete with records.splice(idx), which removes the rest of the array
AdapterDeleteRest(tbls, cnt, table, id) ==
  LET records == Records(tbls, table)
      idx == FindIndex(records, id)
  IN  IF idx = 0
      THEN Answer(getTable(tbls, table), cnt, FALSE, "NOT_FOUND", Null, 0, <<>>)
      ELSE Answer(Put(tbls, table, SubSeq(records, 1, idx - 1)), cnt, TRUE, "",
                  Null, 0, <<>>)

AdapterDelete(tbls, cnt, table, id) ==
  LET records == Records(tbls, table)
      idx == FindIndex(records, id)
  IN  IF idx = 0
      THEN Answer(getTable(tbls, table), cnt, FALSE, "NOT_FOUND", Null, 0, <<>>)
      ELSE Answer(Put(tbls, table, Splice(records, idx)), cnt, TRUE, "", Null, 0, <<>>)

AdapterDeleteMany(tbls, cnt, table, filters) ==
  LET records == Records(tbls, table)
      toDelete == applyFilters(records, filters)
      ids == {toDelete[n].id : n \in 1..Len(toDelete)}
      kept == SelectSeqBy(records, [n \in 1..Len(records) |-> records[n].id \notin ids])
  IN  Answer(Put(tbls, table, kept), cnt, TRUE, "", Null,
             Len(records) - Len(kept), <<>>)

\* count that ignores its filters
AdapterCountAll(tbls, cnt, table, filters) ==
  Answer(getTable(tbls, table), cnt, TRUE, "", Null,
         Len(Records(tbls, table)), <<>>)

AdapterCount(tbls, cnt, table, filters) ==
  Answer(getTable(tbls, table), cnt, TRUE, "", Null,
         Len(applyFilters(Records(tbls, table), filters)), <<>>)

(***************************************************************************)
(* DataService: construction, validation, cache.                           *)
(***************************************************************************)
\* the config objects the service is constructed with (absent field = unset)
ConfigInputs ==
  { EmptyMap,
    [cacheTtlMs |-> 0],
    [cacheTtlMs |-> Ttl],
    [cacheTtlMs |-> Ttl, allowedTables |-> <<TblA>>] }

\* constructor: config?.cacheTtlMs ?? 0, config?.allowedTables
ConstructTtl(config) ==
  IF "cacheTtlMs" \in DOMAIN config THEN config.cacheTtlMs ELSE 0
ConstructAllowed(config) ==
  IF "allowedTables" \in DOMAIN config THEN Some(config.allowedTables) ELSE Null

\* validateTable: "" when accepted, else the code of the DataError thrown
validateTable(table) ==
  IF ~TABLE_NAME_RE(table) THEN "VALIDATION"
  ELSE IF /\ allowedTables # Null
          /\ ~\E n \in 1..Len(allowedTables[1]) : allowedTables[1][n] = table
       THEN "VALIDATION"
       ELSE ""

\* validateId that accepts every id
validateIdLax(id) == ""

\* validateId
validateId(id) == IF ~ID_RE(id) THEN "VALIDATION" ELSE ""

\* cacheKey: `${table}:${id}`, or the table alone for an empty id
cacheKey(table, id) == IF Len(id) > 0 THEN table \o <<":">> \o id ELSE table

\* getCached without the expiry test
getCachedStale(c, key, time) ==
  IF key \notin DOMAIN c THEN [cache |-> c, data |-> Null]
  ELSE [cache |-> c, data |-> Some(c[key].data)]

\* getCached: the cache after the lookup and the value found
getCached(c, key, time) ==
  IF key \notin DOMAIN c THEN [cache |-> c, data |-> Null]
  ELSE IF time > c[key].expiresAt THEN [cache |-> Remove(c, key), data |-> Null]
       ELSE [cache |-> c, data |-> Some(c[key].data)]

\* setCache with an expiry that leaves out the TTL
setCacheNoTtl(c, key, data, time) ==
  IF cacheTtlMs > 0
  THEN Put(c, key, [data |-> data, expiresAt |-> time])
  ELSE c

\* setCache that writes whatever the TTL is
setCacheAlways(c, key, data, time) ==
  Put(c, key, [data |-> data, expiresAt |-> time + cacheTtlMs])

\* setCache
setCache(c, key, data, time) ==
  IF cacheTtlMs > 0
  THEN Put(c, key, [data |-> data, expiresAt |-> time + cacheTtlMs])
  ELSE c

\* invalidateTable with the prefix taken without its colon
invalidateTableNoColon(c, table) ==
  [k \in {x \in DOMAIN c : ~StartsWith(x, table)} |-> c[k]]

\* invalidateTable
invalidateTable(c, table) ==
  [k \in {x \in DOMAIN c : ~StartsWith(x, table \o <<":">>)} |-> c[k]]

(***************************************************************************)
(* DataService: one call is a begin step (validation, cache lookup and the *)
(* adapter call, whose body runs to its answer when it is called) and,     *)
(* when the call awaits the adapter promise, a resume step.  The promises  *)
(* of different calls settle in any order: a DataAdapter may block on      *)
(* network I/O.                                                            *)
(***************************************************************************)
\* op: the call that suspended or settled; outcome: "pending"
\* (suspended at the await), "ok" or "error" (settled); code: the code of the
\* DataError raised; adapter: the adapter method the step invoked, "" for
\* none; cached: the expiry of the cache entry returned; evicted: the number
\* of entries the step removed from the cache
Ev(op, outcome, code, adapter, cached, evicted) ==
  [op |-> op, outcome |-> outcome, code |-> code, adapter |-> adapter,
   cached |-> cached, evicted |-> evicted]

Evicted(c) == Cardinality(DOMAIN cache \ DOMAIN c)

Mutations == {"create", "createMany", "update", "delete", "deleteMany"}

\* a DataError thrown before the adapter is reached
Throw(code) ==
  /\ ev' = Ev("", "error", code, "", Null, 0)
  /\ UNCHANGED <<now, counter, tables, cache, cacheTtlMs, allowedTables,
                 pending, fetchedAt, deleted>>
  /\ UNCHANGED rlVars

\* the adapter method has run; the call awaits its promise
Suspend(op, table, id, ans, c) ==
  /\ tables' = ans.tables
  /\ counter' = ans.counter
  /\ cache' = c
  /\ pending' = pending (+) SetToBag({[op |-> op, table |-> table, id |-> id,
                                       ok |-> ans.ok, code |-> ans.code,
                                       value |-> IF op = "findOne" THEN ans.value
                                                 ELSE Null]})
  /\ ev' = Ev(op, "pending", "", op, Null, Evicted(c))
  /\ fetchedAt' = (IF op \in Mutations THEN EmptyMap ELSE fetchedAt)
  /\ deleted' = (IF op = "delete" /\ ans.ok THEN deleted \cup {<<table, id>>}
                 ELSE deleted)
  /\ UNCHANGED <<now, cacheTtlMs, allowedTables>>
  /\ UNCHANGED rlVars

\* a settling whose cache change is applied on failure too
SettleFinally(f, c) ==
  /\ cache' = c
  /\ pending' = pending (-) SetToBag({f})
  /\ ev' = IF f.ok THEN Ev(f.op, "ok", "", "", Null, Evicted(c))
           ELSE Ev(f.op, "error", "ADAPTER", "", Null, 0)
  /\ fetchedAt' =
       (IF f.op \in Mutations THEN EmptyMap
        ELSE IF f.op = "findOne" /\ f.ok /\ f.value # Null
             THEN Put(fetchedAt, f.table \o <<":">> \o f.id, now)
             ELSE fetchedAt)
  /\ UNCHANGED <<now, counter, tables, cacheTtlMs, allowedTables, deleted>>
  /\ UNCHANGED rlVars

\* the awaited promise has settled: the try block continues with cache c, or
\* the catch block wraps the failure
Settle(f, c) ==
  /\ cache' = (IF f.ok THEN c ELSE cache)
  /\ pending' = pending (-) SetToBag({f})
  /\ ev' = IF f.ok THEN Ev(f.op, "ok", "", "", Null, Evicted(c))
           ELSE Ev(f.op, "error", "ADAPTER", "", Null, 0)
  /\ fetchedAt' =
       (IF f.op \in Mutations THEN EmptyMap
        ELSE IF f.op = "findOne" /\ f.ok /\ f.value # Null
             THEN Put(fetchedAt, f.table \o <<":">> \o f.id, now)
             ELSE fetchedAt)
  /\ UNCHANGED <<now, counter, tables, cacheTtlMs, allowedTables, deleted>>
  /\ UNCHANGED rlVars

Awaiting(f, op) == BagIn(f, pending) /\ f.op = op

FindManyBegin(table, options) ==
  IF validateTable(table) # "" THEN Throw(validateTable(table))
  ELSE Suspend("findMany", table, <<>>,
               AdapterFindMany(tables, counter, table, options), cache)

\* findMany that stores its page under the key of the table
FindManyResumeCached(f) ==
  /\ Awaiting(f, "findMany")
  /\ Settle(f, setCache(cache, cacheKey(f.table, f.id), [id |-> f.table], now))

FindManyResume(f) ==
  /\ Awaiting(f, "findMany")
  /\ Settle(f, cache)

FindOneBegin(table, id) ==
  IF validateTable(table) # "" THEN Throw(validateTable(table))
  ELSE IF validateId(id) # "" THEN Throw(validateId(id))
  ELSE LET key == cacheKey(table, id)
           got == getCached(cache, key, now)
       IN  IF got.data # Null
           THEN /\ cache' = got.cache
                /\ ev' = Ev("findOne", "ok", "", "", Some(cache[key].expiresAt), 0)
                /\ UNCHANGED <<now, counter, tables, cacheTtlMs, allowedTables,
                               pending, fetchedAt, deleted>>
                /\ UNCHANGED rlVars
           ELSE Suspend("findOne", table, id,
                        AdapterFindOne(tables, counter, table, id), got.cache)

FindOneResume(f) ==
  /\ Awaiting(f, "findOne")
  /\ Settle(f, IF f.value # Null
               THEN setCache(cache, cacheKey(f.table, f.id), f.value[1], now)
               ELSE cache)

CreateBegin(table, data) ==
  IF validateTable(table) # "" THEN Throw(validateTable(table))
  ELSE Suspend("create", table, <<>>,
               AdapterCreate(tables, counter, table, data, now), cache)

CreateResume(f) ==
  /\ Awaiting(f, "create")
  /\ Settle(f, invalidateTable(cache, f.table))

CreateManyBegin(table, items) ==
  /\ counter + Len(items) <= MaxCreates
  /\ IF validateTable(table) # "" THEN Throw(validateTable(table))
     ELSE Suspend("createMany", table, <<>>,
                  AdapterCreateMany(tables, counter, table, items, now), cache)

CreateManyResume(f) ==
  /\ Awaiting(f, "createMany")
  /\ Settle(f, invalidateTable(cache, f.table))

UpdateBegin(table, id, data) ==
  IF validateTable(table) # "" THEN Throw(validateTable(table))
  ELSE IF validateId(id) # "" THEN Throw(validateId(id))
  ELSE Suspend("update", table, id,
               AdapterUpdate(tables, counter, table, id, data, now), cache)

\* update that invalidates the whole table
UpdateResumeWide(f) ==
  /\ Awaiting(f, "update")
  /\ Settle(f, invalidateTable(cache, f.table))

UpdateResume(f) ==
  /\ Awaiting(f, "update")
  /\ Settle(f, Remove(cache, cacheKey(f.table, f.id)))

DeleteBegin(table, id) ==
  IF validateTable(table) # "" THEN Throw(validateTable(table))
  ELSE IF validateId(id) # "" THEN Throw(validateId(id))
  ELSE Suspend("delete", table, id,
               AdapterDelete(tables, counter, table, id), cache)

DeleteResume(f) ==
  /\ Awaiting(f, "delete")
  /\ Settle(f, Remove(cache, cacheKey(f.table, f.id)))

DeleteManyBegin(table, filters) ==
  IF validateTable(table) # "" THEN Throw(validateTable(table))
  ELSE Suspend("deleteMany", table, <<>>,
               AdapterDeleteMany(tables, counter, table, filters), cache)

DeleteManyResume(f) ==
  /\ Awaiting(f, "deleteMany")
  /\ Settle(f, invalidateTable(cache, f.table))

CountBegin(table, filters) ==
  IF validateTable(table) # "" THEN Throw(validateTable(table))
  ELSE Suspend("count", table, <<>>,
               AdapterCount(tables, counter, table, filters), cache)

CountResume(f) ==
  /\ Awaiting(f, "count")
  /\ Settle(f, cache)

Tick ==
  /\ now < MaxTime
  /\ now' = now + 1
  /\ ev' = Ev("", "", "", "", Null, 0)
  /\ UNCHANGED <<counter, tables, cache, cacheTtlMs, allowedTables, pending,
                 fetchedAt, deleted>>
  /\ UNCHANGED rlVars
  /\ UNCHANGED res

(***************************************************************************)
(* Rate-limit middleware.                                                  *)
(***************************************************************************)
HeaderInputs == {Null, Some(<<"1">>)}
RealIpInputs == {Null, Some(<<"2">>)}

\* c.req.header('x-forwarded-for') ?? c.req.header('x-real-ip') ?? 'unknown'
ClientKey(xff, xri) ==
  IF xff # Null THEN xff[1] ELSE IF xri # Null THEN xri[1] ELSE <<"unknown">>

\* prior: the count the key had reached when the request arrived
RlEv(kind, ip, status, fwd, prior) ==
  [kind |-> kind, ip |-> ip, status |-> status, forwarded |-> fwd,
   prior |-> prior]

\* the window of a key as a client sees it: it opens with the first request
\* after the previous one has ended, and counts the requests forwarded
Window(ip) ==
  IF ip \in DOMAIN forwarded /\ ~(forwarded[ip].start + windowMs < now)
  THEN forwarded[ip]
  ELSE [start |-> now, n |-> 0]

\* a limiter whose window slides: every request moves resetAt
RateLimitSliding(xff, xri) ==
  LET ip == ClientKey(xff, xri)
      fresh == ip \notin DOMAIN store \/ store[ip].resetAt < now
      count == IF fresh THEN 1 ELSE store[ip].count + 1
      pass == fresh \/ ~(count > maxRequests)
      known == ip \in DOMAIN unswept
      lapsed == ip \notin DOMAIN unswept \/ unswept[ip].resetAt < now
  IN  /\ inflight < MaxInflight
      /\ count <= maxRequests + MaxReject
      /\ IF lapsed THEN TRUE ELSE unswept[ip].count < maxRequests + MaxReject
      /\ unswept' = Put(unswept, ip,
                        IF lapsed THEN [count |-> 1, resetAt |-> now + windowMs]
                        ELSE [unswept[ip] EXCEPT !.count = @ + 1])
      /\ store' = Put(store, ip,
                      IF fresh THEN [count |-> 1, resetAt |-> now + windowMs]
                      ELSE [count |-> count, resetAt |-> now + windowMs])
      /\ inflight' = (IF pass THEN inflight + 1 ELSE inflight)
      /\ forwarded' = Put(forwarded, ip,
                          [Window(ip) EXCEPT !.n = @ + (IF pass THEN 1 ELSE 0)])
      /\ rlEv' = RlEv("request", ip, IF pass THEN 200 ELSE 429, pass,
                      IF known THEN unswept[ip].count ELSE 0)
      /\ UNCHANGED <<now, maxRequests, windowMs>>
      /\ UNCHANGED svcVars
      /\ UNCHANGED res

\* the middleware up to its await next() or its 429 answer
RateLimit(xff, xri) ==
  LET ip == ClientKey(xff, xri)
      fresh == ip \notin DOMAIN store \/ store[ip].resetAt < now
      count == IF fresh THEN 1 ELSE store[ip].count + 1
      pass == fresh \/ ~(count > maxRequests)
      known == ip \in DOMAIN unswept
      lapsed == ip \notin DOMAIN unswept \/ unswept[ip].resetAt < now
  IN  /\ inflight < MaxInflight
      /\ count <= maxRequests + MaxReject
      /\ IF lapsed THEN TRUE ELSE unswept[ip].count < maxRequests + MaxReject
      /\ unswept' = Put(unswept, ip,
                        IF lapsed THEN [count |-> 1, resetAt |-> now + windowMs]
                        ELSE [unswept[ip] EXCEPT !.count = @ + 1])
      /\ store' = Put(store, ip,
                      IF fresh THEN [count |-> 1, resetAt |-> now + windowMs]
                      ELSE [store[ip] EXCEPT !.count = count])
      /\ inflight' = (IF pass THEN inflight + 1 ELSE inflight)
      /\ forwarded' = Put(forwarded, ip,
                          [Window(ip) EXCEPT !.n = @ + (IF pass THEN 1 ELSE 0)])
      /\ rlEv' = RlEv("request", ip, IF pass THEN 200 ELSE 429, pass,
                      IF known THEN unswept[ip].count ELSE 0)
      /\ UNCHANGED <<now, maxRequests, windowMs>>
      /\ UNCHANGED svcVars
      /\ UNCHANGED res

\* next() returns and the middleware with it
NextDone ==
  /\ inflight > 0
  /\ inflight' = inflight - 1
  /\ rlEv' = RlEv("done", <<>>, 200, FALSE, 0)
  /\ UNCHANGED <<now, maxRequests, windowMs, store, forwarded, unswept>>
  /\ UNCHANGED svcVars
  /\ UNCHANGED res

\* a cleanup that drops every entry
cleanupAll ==
  /\ store' = EmptyMap
  /\ rlEv' = RlEv("cleanup", <<>>, 0, FALSE, 0)
  /\ UNCHANGED <<now, maxRequests, windowMs, inflight, forwarded, unswept>>
  /\ UNCHANGED svcVars
  /\ UNCHANGED res

\* a cleanup that also drops the entries whose window ends now
cleanupEager ==
  /\ store' = [k \in {x \in DOMAIN store : ~(store[x].resetAt <= now)} |-> store[k]]
  /\ rlEv' = RlEv("cleanup", <<>>, 0, FALSE, 0)
  /\ UNCHANGED <<now, maxRequests, windowMs, inflight, forwarded, unswept>>
  /\ UNCHANGED svcVars
  /\ UNCHANGED res

\* the setInterval callback
cleanup ==
  /\ store' = [k \in {x \in DOMAIN store : ~(store[x].resetAt < now)} |-> store[k]]
  /\ rlEv' = RlEv("cleanup", <<>>, 0, FALSE, 0)
  /\ UNCHANGED <<now, maxRequests, windowMs, inflight, forwarded, unswept>>
  /\ UNCHANGED svcVars
  /\ UNCHANGED res

RlTick ==
  /\ now < MaxTime
  /\ now' = now + 1
  /\ rlEv' = RlEv("tick", <<>>, 0, FALSE, 0)
  /\ UNCHANGED <<maxRequests, windowMs, store, inflight, forwarded, unswept>>
  /\ UNCHANGED svcVars
  /\ UNCHANGED res

(***************************************************************************)
(* Route helpers: parseFilters, parseOrderBy.                              *)
(***************************************************************************)
\* String.prototype.split(':')
RECURSIVE Split(_)
Split(s) ==
  IF \E n \in 1..Len(s) : s[n] = ":"
  THEN LET n == CHOOSE k \in 1..Len(s) :
                  s[k] = ":" /\ \A j \in 1..(k - 1) : s[j] # ":"
       IN  <<SubSeq(s, 1, n - 1)>> \o Split(SubSeq(s, n + 1, Len(s)))
  ELSE <<s>>

\* Array.prototype.join(':')
RECURSIVE Join(_)
Join(parts) ==
  IF Len(parts) = 0 THEN <<>>
  ELSE IF Len(parts) = 1 THEN parts[1]
  ELSE parts[1] \o <<":">> \o Join(Tail(parts))

\* a query parameter: absent, one string, or an array of strings
NoParam == [kind |-> "undefined"]
OneParam(str) == [kind |-> "string", str |-> str]
ManyParam(items) == [kind |-> "array", items |-> items]

\* !raw: undefined and the empty string are falsy, an array never is
Falsy(raw) == raw.kind = "undefined" \/ (raw.kind = "string" /\ raw.str = <<>>)

\* Array.isArray(raw) ? raw : [raw]
Items(raw) == IF raw.kind = "array" THEN raw.items ELSE <<raw.str>>

\* the value of a decimal numeral
RECURSIVE NumberOf(_)
NumberOf(s) ==
  IF Len(s) = 0 THEN 0
  ELSE 10 * NumberOf(SubSeq(s, 1, Len(s) - 1))
         + (CHOOSE d \in 0..9 : \/ (d = 0 /\ s[Len(s)] = "0")
                                \/ (d > 0 /\ DigitChar[d] = s[Len(s)]))

\* JSON.parse on texts made of letters, digits and colons: a numeral without a
\* leading zero parses to its number, every other such text throws
JsonParse(s) ==
  IF /\ Len(s) >= 1
     /\ \A n \in 1..Len(s) : s[n] \in Digit
     /\ (Len(s) > 1 => s[1] # "0")
  THEN [ok |-> TRUE, value |-> NumberOf(s)]
  ELSE [ok |-> FALSE]

\* one element of parseFilters' map: the filter, or the Error thrown
ParseFilter(s) ==
  LET parts == Split(s)
  IN  IF Len(parts) < 3
      THEN [ok |-> FALSE, code |-> "",
            message |-> <<"Invalid filter format: ">> \o s
                          \o <<" (expected field:op:value)">>]
      ELSE LET value == Join(SubSeq(parts, 3, Len(parts)))
               parsed == JsonParse(value)
           IN  [ok |-> TRUE,
                filter |-> IF parsed.ok
                           THEN [field |-> parts[1], operator |-> parts[2],
                                 json |-> TRUE, value |-> parsed.value]
                           ELSE [field |-> parts[1], operator |-> parts[2],
                                 json |-> FALSE, value |-> value]]

\* parseFilters: the filters, or the Error of the first element that throws
\* (an Error, not a DataError: it carries no code)
parseFilters(raw) ==
  IF Falsy(raw) THEN [ok |-> TRUE, filters |-> <<>>]
  ELSE LET items == Items(raw)
           each == [n \in 1..Len(items) |-> ParseFilter(items[n])]
       IN  IF \E n \in 1..Len(items) : ~each[n].ok
           THEN LET n == CHOOSE k \in 1..Len(items) :
                           ~each[k].ok /\ \A j \in 1..(k - 1) : each[j].ok
                IN  [ok |-> FALSE, code |-> each[n].code,
                     message |-> each[n].message]
           ELSE [ok |-> TRUE,
                 filters |-> [n \in 1..Len(items) |-> each[n].filter]]

\* parseOrderBy with the direction taken from everything after the first colon
parseOrderByRest(raw) ==
  IF Falsy(raw) THEN Null
  ELSE LET items == Items(raw)
       IN  Some([n \in 1..Len(items) |->
                   LET parts == Split(items[n])
                       dir == Join(Tail(parts))
                   IN  [field |-> parts[1],
                        direction |-> IF Len(parts) >= 2 /\ dir = <<"d", "e", "s", "c">>
                                      THEN "desc" ELSE "asc"]])

\* parseOrderBy: undefined, or one {field, direction} per directive
parseOrderBy(raw) ==
  IF Falsy(raw) THEN Null
  ELSE LET items == Items(raw)
       IN  Some([n \in 1..Len(items) |->
                   LET parts == Split(items[n])
                   IN  [field |-> parts[1],
                        direction |-> IF Len(parts) >= 2 /\ parts[2] = <<"d", "e", "s", "c">>
                                      THEN "desc" ELSE "asc"]])

(***************************************************************************)
(* Specifications.                                                         *)
(***************************************************************************)
ItemInputs == {<<>>, <<[val |-> 1], [val |-> 0]>>}

OptionInputs ==
  { EmptyMap,
    [limit |-> 1, offset |-> 1],
    [filters |-> <<[field |-> "val", operator |-> "eq", value |-> 1]>>,
     orderBy |-> <<[field |-> "val", direction |-> "desc"]>>] }

\* ids a caller can name: those uuid() hands out or will hand out, one malformed
IdInputs == {uuid(n) : n \in 1..MaxCreates} \cup {IdBad}

\* nothing has been answered yet
NoResult == [op |-> ""]

InitService(config) ==
  /\ counter = 0
  /\ tables = [t \in {x \in TableInputs : TABLE_NAME_RE(x)} |-> <<>>]
  /\ cache = EmptyMap
  /\ cacheTtlMs = ConstructTtl(config)
  /\ allowedTables = ConstructAllowed(config)
  /\ pending = EmptyBag
  /\ ev = Ev("", "", "", "", Null, 0)
  /\ fetchedAt = EmptyMap
  /\ deleted = {}
  /\ res = NoResult

InitRateLimiter(max, window) ==
  /\ maxRequests = max
  /\ windowMs = window
  /\ store = EmptyMap
  /\ inflight = 0
  /\ forwarded = EmptyMap
  /\ unswept = EmptyMap
  /\ rlEv = RlEv("init", <<>>, 0, FALSE, 0)

Init ==
  /\ now = 0
  /\ \E config \in ConfigInputs : InitService(config)
  /\ InitRateLimiter(RlMaxRequests, RlWindowMs)

\* the server takes a new call while fewer than n are suspended
Free(n) == BagCardinality(pending) < n

Next ==
  \/ /\ Free(MaxPending) /\ \E t \in TableInputs, o \in OptionInputs : FindManyBegin(t, o)
     /\ UNCHANGED res
  \/ /\ \E f \in BagToSet(pending) : FindManyResume(f)
     /\ UNCHANGED res
  \/ /\ Free(MaxPending) /\ \E t \in TableInputs, i \in IdInputs : FindOneBegin(t, i)
     /\ UNCHANGED res
  \/ /\ \E f \in BagToSet(pending) : FindOneResume(f)
     /\ UNCHANGED res
  \/ /\ Free(MaxPending) /\ counter < MaxCreates
          /\ \E t \in TableInputs, d \in DataInputs : CreateBegin(t, d)
     /\ UNCHANGED res
  \/ /\ \E f \in BagToSet(pending) : CreateResume(f)
     /\ UNCHANGED res
  \/ /\ Free(MaxPending) /\ \E t \in TableInputs, d \in ItemInputs : CreateManyBegin(t, d)
     /\ UNCHANGED res
  \/ /\ \E f \in BagToSet(pending) : CreateManyResume(f)
     /\ UNCHANGED res
  \/ /\ Free(MaxPending) /\ \E t \in TableInputs, i \in IdInputs, d \in DataInputs :
                               UpdateBegin(t, i, d)
     /\ UNCHANGED res
  \/ /\ \E f \in BagToSet(pending) : UpdateResume(f)
     /\ UNCHANGED res
  \/ /\ Free(MaxPending) /\ \E t \in TableInputs, i \in IdInputs : DeleteBegin(t, i)
     /\ UNCHANGED res
  \/ /\ \E f \in BagToSet(pending) : DeleteResume(f)
     /\ UNCHANGED res
  \/ /\ Free(MaxPending) /\ \E t \in TableInputs, f \in FilterInputs : DeleteManyBegin(t, f)
     /\ UNCHANGED res
  \/ /\ \E f \in BagToSet(pending) : DeleteManyResume(f)
     /\ UNCHANGED res
  \/ /\ Free(MaxPending) /\ \E t \in TableInputs, f \in FilterInputs : CountBegin(t, f)
     /\ UNCHANGED res
  \/ /\ \E f \in BagToSet(pending) : CountResume(f)
     /\ UNCHANGED res
  \/ Tick

Spec == Init /\ [][Next]_vars

InitRL ==
  /\ now = 0
  /\ InitService(EmptyMap)
  /\ \E max \in 1..RlMaxRequests : InitRateLimiter(max, RlWindowMs)

NextRL ==
  \/ \E xff \in HeaderInputs, xri \in RealIpInputs : RateLimit(xff, xri)
  \/ NextDone
  \/ cleanup
  \/ RlTick

SpecRL == InitRL /\ [][NextRL]_vars

\* requests that overlap: single-record reads and writes of one table, with
\* the cache enabled
InitRace ==
  /\ now = 0
  /\ InitService([cacheTtlMs |-> Ttl])
  /\ InitRateLimiter(RlMaxRequests, RlWindowMs)

NextRace ==
  \/ /\ Free(MaxRacing) /\ \E i \in IdInputs : FindOneBegin(TblA, i)
     /\ UNCHANGED res
  \/ /\ \E f \in BagToSet(pending) : FindOneResume(f)
     /\ UNCHANGED res
  \/ /\ Free(MaxRacing) /\ counter < MaxCreates /\ CreateBegin(TblA, [val |-> 0])
     /\ UNCHANGED res
  \/ /\ \E f \in BagToSet(pending) : CreateResume(f)
     /\ UNCHANGED res
  \/ /\ Free(MaxRacing) /\ \E i \in IdInputs : UpdateBegin(TblA, i, [val |-> 1])
     /\ UNCHANGED res
  \/ /\ \E f \in BagToSet(pending) : UpdateResume(f)
     /\ UNCHANGED res
  \/ /\ Free(MaxRacing) /\ \E i \in IdInputs : DeleteBegin(TblA, i)
     /\ UNCHANGED res
  \/ /\ \E f \in BagToSet(pending) : DeleteResume(f)
     /\ UNCHANGED res
  \/ Tick

SpecRace == InitRace /\ [][NextRace]_vars

\* the in-memory adapter behind a service without cache: records of one table
\* are created, read and deleted
IdsMem == {uuid(n) : n \in 1..MaxRecords}

InitMem ==
  /\ now = 0
  /\ InitService(EmptyMap)
  /\ InitRateLimiter(RlMaxRequests, RlWindowMs)

NextMem ==
  \/ /\ Free(MaxPending) /\ counter < MaxRecords
          /\ \E d \in DataInputs : CreateBegin(TblA, d)
     /\ UNCHANGED res
  \/ /\ \E f \in BagToSet(pending) : CreateResume(f)
     /\ UNCHANGED res
  \/ /\ Free(MaxPending) /\ \E i \in IdsMem : FindOneBegin(TblA, i)
     /\ UNCHANGED res
  \/ /\ \E f \in BagToSet(pending) : FindOneResume(f)
     /\ UNCHANGED res
  \/ /\ Free(MaxPending) /\ \E i \in IdsMem : DeleteBegin(TblA, i)
     /\ UNCHANGED res
  \/ /\ \E f \in BagToSet(pending) : DeleteResume(f)
     /\ UNCHANGED res
  \/ Tick

SpecMem == InitMem /\ [][NextMem]_vars

\* findMany of the in-memory adapter called on the records created so far
FindInputs ==
  { EmptyMap,
    [limit |-> 2, offset |-> 1],
    [limit |-> 0],
    [limit |-> 2, offset |-> 2],
    [offset |-> 4],
    [filters |-> <<[field |-> "val", operator |-> "eq", value |-> 1]>>,
     limit |-> 1],
    [filters |-> <<[field |-> "val", operator |-> "gte", value |-> 0],
                   [field |-> "val", operator |-> "neq", value |-> 0]>>,
     orderBy |-> <<[field |-> "val", direction |-> "asc"]>>],
    [orderBy |-> <<[field |-> "nope", direction |-> "asc"],
                   [field |-> "val", direction |-> "desc"]>>,
     limit |-> 2, offset |-> 1] }

\* InMemoryAdapter.findMany, called directly: the PaginatedResult it resolves to
MemFindMany(table, options) ==
  LET ans == AdapterFindMany(tables, counter, table, options)
  IN  /\ res' = [op |-> "findMany", table |-> table, options |-> options,
                 data |-> ans.value, count |-> ans.num, limit |-> ans.page[1],
                 offset |-> ans.page[2], hasMore |-> ans.page[3]]
      /\ tables' = ans.tables
      /\ UNCHANGED <<now, counter, cache, cacheTtlMs, allowedTables, pending, ev,
                     fetchedAt, deleted>>
      /\ UNCHANGED rlVars

NextFind ==
  \/ /\ Free(MaxPending) /\ counter < MaxRecords
          /\ \E d \in DataInputs : CreateBegin(TblA, d)
     /\ UNCHANGED res
  \/ /\ \E f \in BagToSet(pending) : CreateResume(f)
     /\ UNCHANGED res
  \/ \E o \in FindInputs : MemFindMany(TblA, o)
  \/ Tick

SpecFind == InitMem /\ [][NextFind]_vars

(***************************************************************************)
(* The in-memory adapter called directly.                                  *)
(***************************************************************************)
BatchInputs ==
  { <<>>,
    <<[val |-> 1], [val |-> 0]>>,
    <<[val |-> 0, id |-> IdUnknown], [val |-> 1], [val |-> 0]>> }

\* the data of an update: a field, a field with the id of another record, an
\* id no record has
UpdateInputs == { [val |-> 1], [val |-> 0, id |-> uuid(1)], [id |-> IdUnknown] }

IdsCalled == IdsMem \cup {IdUnknown}

\* filter lists: those of FilterInputs, and lists with in, gt and an operator
\* the adapter does not know
AdapterFilters ==
  FilterInputs \cup
  { << [field |-> "val", operator |-> "in", value |-> <<0, 2>>] >>,
    << [field |-> "val", operator |-> "gt", value |-> 0],
       [field |-> "id", operator |-> "neq", value |-> uuid(2)] >>,
    << [field |-> "val", operator |-> "between", value |-> 0] >> }

\* a call of the adapter that has resolved or rejected with answer ans
MemCall(op, args, ans) ==
  /\ res' = [op |-> op, args |-> args, ok |-> ans.ok, code |-> ans.code,
             value |-> ans.value, num |-> ans.num]
  /\ tables' = ans.tables
  /\ counter' = ans.counter
  /\ UNCHANGED <<now, cache, cacheTtlMs, allowedTables, pending, ev, fetchedAt,
                 deleted>>
  /\ UNCHANGED rlVars

MemCreate(table, data) ==
  /\ counter < MaxRecords
  /\ MemCall("create", [table |-> table, data |-> data],
             AdapterCreate(tables, counter, table, data, now))

MemCreateMany(table, items) ==
  /\ counter + Len(items) <= MaxRecords
  /\ MemCall("createMany", [table |-> table, items |-> items],
             AdapterCreateMany(tables, counter, table, items, now))

MemUpdate(table, id, data) ==
  MemCall("update", [table |-> table, id |-> id, data |-> data],
          AdapterUpdate(tables, counter, table, id, data, now))

MemDelete(table, id) ==
  MemCall("delete", [table |-> table, id |-> id],
          AdapterDelete(tables, counter, table, id))

MemDeleteMany(table, filters) ==
  MemCall("deleteMany", [table |-> table, filters |-> filters],
          AdapterDeleteMany(tables, counter, table, filters))

MemCount(table, filters) ==
  MemCall("count", [table |-> table, filters |-> filters],
          AdapterCount(tables, counter, table, filters))

NextAdapter ==
  \/ \E d \in DataInputs : MemCreate(TblA, d)
  \/ \E items \in BatchInputs : MemCreateMany(TblA, items)
  \/ \E i \in IdsCalled, d \in UpdateInputs : MemUpdate(TblA, i, d)
  \/ \E i \in IdsCalled : MemDelete(TblA, i)
  \/ \E fl \in AdapterFilters : MemDeleteMany(TblA, fl)
  \/ \E fl \in AdapterFilters : MemCount(TblA, fl)
  \/ Tick

SpecAdapter == InitMem /\ [][NextAdapter]_vars

(***************************************************************************)
(* resourceRoutes: the handlers of /:table and /:table/:id.                *)
(***************************************************************************)
\* the field and operator names the records and filters of the model use, for
\* the same names spelled out in a query string
Atom(s) ==
  CASE s = <<"v", "a", "l">> -> "val"
    [] s = <<"i", "d">> -> "id"
    [] s = <<"e", "q">> -> "eq"
    [] s = <<"g", "t", "e">> -> "gte"
    [] s = <<"l", "t">> -> "lt"
    [] s = <<"d", "e", "s", "c">> -> "desc"
    [] OTHER -> "unknown"

FilterParams ==
  { NoParam,
    OneParam(<<>>),
    OneParam(<<"v", "a", "l", ":", "e", "q", ":", "1">>),
    OneParam(<<"v", "a", "l", ":", "e", "q">>),
    OneParam(<<"v", "a", "l">>),
    ManyParam(<<<<"v", "a", "l", ":", "g", "t", "e", ":", "0">>,
                <<"v", "a", "l", ":", "l", "t", ":", "1">>>>),
    ManyParam(<<<<"v", "a", "l", ":", "g", "t", "e", ":", "0">>, <<":">>>>) }

OrderParams == {NoParam, OneParam(<<"v", "a", "l", ":", "d", "e", "s", "c">>)}

\* the limit query parameter: absent or a decimal numeral
LimitParams == {Null, Some(<<"1">>)}

RouteTables == {TblA, TblBad}

\* c.json(body, status): the route, the status, whether the body is
\* {error: message}, the message, and the code of the error caught ("" when
\* none was caught or the error is not a DataError)
Respond(route, status, error, message, caught) ==
  [op |-> route, status |-> status, error |-> error, message |-> message,
   caught |-> caught]

\* the response of a handler whose service call has thrown or returned
\* without suspending, none yet while the call is suspended
AfterCall(route, okStatus) ==
  res' = IF ev'.outcome = "error" THEN Respond(route, 400, TRUE, <<>>, ev'.code)
         ELSE IF ev'.outcome = "ok" THEN Respond(route, okStatus, FALSE, <<>>, "")
         ELSE res

\* the response of a handler whose service call has settled
AfterAwait(route, okStatus) ==
  res' = IF ev'.outcome = "error" THEN Respond(route, 400, TRUE, <<>>, ev'.code)
         ELSE Respond(route, okStatus, FALSE, <<>>, "")

\* GET /:table up to the await of service.findMany, or to its response
GetManyBegin(table, filter, orderBy, limit) ==
  LET filters == parseFilters(filter)
      order == parseOrderBy(orderBy)
      o1 == IF filters.ok /\ Len(filters.filters) > 0
            THEN [filters |-> [n \in 1..Len(filters.filters) |->
                                 [field |-> Atom(filters.filters[n].field),
                                  operator |-> Atom(filters.filters[n].operator),
                                  value |-> filters.filters[n].value]]]
            ELSE EmptyMap
      o2 == IF order # Null
            THEN Spread(o1, [orderBy |-> [n \in 1..Len(order[1]) |->
                                            [field |-> Atom(order[1][n].field),
                                             direction |-> order[1][n].direction]]])
            ELSE o1
      options == IF limit # Null THEN Spread(o2, [limit |-> NumberOf(limit[1])])
                 ELSE o2
  IN  IF ~filters.ok
      THEN /\ res' = Respond("GET /:table", 400, TRUE, filters.message, filters.code)
           /\ UNCHANGED <<now, counter, tables, cache, cacheTtlMs, allowedTables,
                          pending, ev, fetchedAt, deleted>>
           /\ UNCHANGED rlVars
      ELSE /\ FindManyBegin(table, options)
           /\ AfterCall("GET /:table", 200)

GetManyResume(f) ==
  /\ FindManyResume(f)
  /\ AfterAwait("GET /:table", 200)

\* GET /:table/:id
GetOneBegin(table, id) ==
  /\ FindOneBegin(table, id)
  /\ AfterCall("GET /:table/:id", 200)

GetOneResume(f) ==
  /\ FindOneResume(f)
  /\ res' = IF ev'.outcome = "error"
            THEN Respond("GET /:table/:id", 400, TRUE, <<>>, ev'.code)
            ELSE IF f.value = Null
                 THEN Respond("GET /:table/:id", 404, TRUE, <<"Not found">>, "")
                 ELSE Respond("GET /:table/:id", 200, FALSE, <<>>, "")

\* POST /:table
PostBegin(table, body) ==
  /\ CreateBegin(table, body)
  /\ AfterCall("POST /:table", 201)

PostResume(f) ==
  /\ CreateResume(f)
  /\ AfterAwait("POST /:table", 201)

\* PUT /:table/:id
PutBegin(table, id, body) ==
  /\ UpdateBegin(table, id, body)
  /\ AfterCall("PUT /:table/:id", 200)

PutResume(f) ==
  /\ UpdateResume(f)
  /\ AfterAwait("PUT /:table/:id", 200)

\* DELETE /:table/:id
DeleteRouteBegin(table, id) ==
  /\ DeleteBegin(table, id)
  /\ AfterCall("DELETE /:table/:id", 200)

DeleteRouteResume(f) ==
  /\ DeleteResume(f)
  /\ AfterAwait("DELETE /:table/:id", 200)

InitHttp ==
  /\ now = 0
  /\ \E config \in {EmptyMap, [cacheTtlMs |-> Ttl]} : InitService(config)
  /\ InitRateLimiter(RlMaxRequests, RlWindowMs)

NextHttp ==
  \/ Free(MaxPending)
       /\ \E t \in RouteTables, fl \in FilterParams, o \in OrderParams, l \in LimitParams :
            GetManyBegin(t, fl, o, l)
  \/ \E f \in BagToSet(pending) : GetManyResume(f)
  \/ Free(MaxPending) /\ \E t \in RouteTables, i \in IdInputs : GetOneBegin(t, i)
  \/ \E f \in BagToSet(pending) : GetOneResume(f)
  \/ Free(MaxPending) /\ counter < MaxCreates
       /\ \E t \in RouteTables, d \in DataInputs : PostBegin(t, d)
  \/ \E f \in BagToSet(pending) : PostResume(f)
  \/ Free(MaxPending)
       /\ \E t \in RouteTables, i \in IdInputs : PutBegin(t, i, [val |-> 1])
  \/ \E f \in BagToSet(pending) : PutResume(f)
  \/ Free(MaxPending) /\ \E t \in RouteTables, i \in IdInputs : DeleteRouteBegin(t, i)
  \/ \E f \in BagToSet(pending) : DeleteRouteResume(f)
  \/ Tick

SpecHttp == InitHttp /\ [][NextHttp]_vars

(***************************************************************************)
(* The service over an adapter whose backend calls can fail.               *)
(***************************************************************************)
\* an adapter call that is rejected: SupabaseAdapter throws when the client
\* reports an error, and the backend is left as it was
AdapterFails(tbls, cnt) == Answer(tbls, cnt, FALSE, "", Null, 0, <<>>)

\* create, createMany, update, delete or deleteMany up to the await of an
\* adapter call that is going to be rejected
MutationFails(op, table, id) ==
  IF validateTable(table) # "" THEN Throw(validateTable(table))
  ELSE IF op \in {"update", "delete"} /\ validateId(id) # "" THEN Throw(validateId(id))
  ELSE Suspend(op, table, IF op \in {"update", "delete"} THEN id ELSE <<>>,
               AdapterFails(tables, counter), cache)

InitFail ==
  /\ now = 0
  /\ InitService([cacheTtlMs |-> Ttl])
  /\ InitRateLimiter(RlMaxRequests, RlWindowMs)

NextFail ==
  \/ /\ Free(MaxPending) /\ counter < MaxCreates
          /\ \E t \in RouteTables, d \in DataInputs : CreateBegin(t, d)
     /\ UNCHANGED res
  \/ /\ Free(MaxPending) /\ \E t \in RouteTables, i \in IdInputs : FindOneBegin(t, i)
     /\ UNCHANGED res
  \/ /\ \E f \in BagToSet(pending) : FindOneResume(f)
     /\ UNCHANGED res
  \/ /\ Free(MaxPending)
          /\ \E op \in Mutations, t \in RouteTables, i \in IdInputs : MutationFails(op, t, i)
     /\ UNCHANGED res
  \/ /\ \E f \in BagToSet(pending) : CreateResume(f)
     /\ UNCHANGED res
  \/ /\ \E f \in BagToSet(pending) : CreateManyResume(f)
     /\ UNCHANGED res
  \/ /\ \E f \in BagToSet(pending) : UpdateResume(f)
     /\ UNCHANGED res
  \/ /\ \E f \in BagToSet(pending) : DeleteResume(f)
     /\ UNCHANGED res
  \/ /\ \E f \in BagToSet(pending) : DeleteManyResume(f)
     /\ UNCHANGED res
  \/ Tick

SpecFail == InitFail /\ [][NextFail]_vars

\* direct calls of validateTable and parseOrderBy
NameInputs ==
  { TblA, TblAB, TblBad, <<>>, <<"_">>, <<"1", "a">>, <<"a", "1", "_">>,
    <<"A", "z">>, <<"a", "-", "b">>, <<"a", " ">>,
    [k \in 1..63 |-> "a"], [k \in 1..64 |-> "a"] }

CallConfigs == ConfigInputs \cup {[allowedTables |-> <<TblBad, TblAB>>]}

OrderSegs ==
  { <<"n">>, <<"a">>, <<>>, <<"d", "e", "s", "c">>, <<"a", "s", "c">>,
    <<"D", "E", "S", "C">>, <<"d", "e", "s", "c", " ">> }

Directives ==
  {Join(<<x>>) : x \in OrderSegs}
    \cup {Join(<<x, y>>) : x \in {<<"n">>, <<>>}, y \in OrderSegs}
    \cup {Join(<<x, y, z>>) : x \in {<<"n">>}, y \in OrderSegs, z \in OrderSegs}

OrderInputs ==
  {NoParam, ManyParam(<<>>)}
    \cup {OneParam(d) : d \in Directives}
    \cup {ManyParam(<<d, e>>) :
            d \in {Join(<<<<"n">>, <<"d", "e", "s", "c">>>>), <<"n">>},
            e \in {<<"a">>, Join(<<<<"a">>, <<"a", "s", "c">>, <<"d", "e", "s", "c">>>>)}}

\* validateTable called on a name: the code of the DataError thrown, "" if none
ValidateTableCall(table) ==
  /\ res' = [op |-> "validateTable", table |-> table, code |-> validateTable(table)]
  /\ UNCHANGED <<now, counter, tables, cache, cacheTtlMs, allowedTables, pending,
                 ev, fetchedAt, deleted>>
  /\ UNCHANGED rlVars

\* parseOrderBy called on a query parameter
ParseOrderByCall(raw) ==
  /\ res' = [op |-> "parseOrderBy", raw |-> raw, value |-> parseOrderBy(raw)]
  /\ UNCHANGED <<now, counter, tables, cache, cacheTtlMs, allowedTables, pending,
                 ev, fetchedAt, deleted>>
  /\ UNCHANGED rlVars

InitCalls ==
  /\ now = 0
  /\ \E config \in CallConfigs : InitService(config)
  /\ InitRateLimiter(RlMaxRequests, RlWindowMs)

NextCalls ==
  \/ \E t \in NameInputs : ValidateTableCall(t)
  \/ \E raw \in OrderInputs : ParseOrderByCall(raw)

SpecCalls == InitCalls /\ [][NextCalls]_vars

(***************************************************************************)
(* Claims.                                                                 *)
(***************************************************************************)
\* the key a caller means by (table, id)
KeyOf(table, id) == table \o <<":">> \o id

\* the table a key of the form table:id belongs to
TableOf(key) ==
  SubSeq(key, 1, (CHOOSE n \in 1..Len(key) :
                    key[n] = ":" /\ \A m \in 1..(n - 1) : key[m] # ":") - 1)

ValidTables == {t \in TableInputs : TABLE_NAME_RE(t)}

Expired(key) == key \in DOMAIN cache /\ cache[key].expiresAt < now

\* the step is the begin step of a findOne of key that reaches the adapter
LooksUp(key) ==
  \E f \in BagToSet(pending') :
    /\ f.op = "findOne" /\ KeyOf(f.table, f.id) = key
    /\ pending' = pending (+) SetToBag({f})

\* the step is the resume step of a mutation
MutationSettles ==
  \E f \in BagToSet(pending) :
    f.op \in Mutations /\ pending' = pending (-) SetToBag({f})

C1_Served == ev.cached # Null => ~(ev.cached[1] < now)

C1_Lazy ==
  /\ \A t \in ValidTables, i \in IdInputs :
       Expired(KeyOf(t, i)) /\ FindOneBegin(t, i)
         => KeyOf(t, i) \notin DOMAIN cache' /\ ev'.adapter = "findOne"
  /\ \A k \in DOMAIN cache :
       Expired(k) /\ k \notin DOMAIN cache' => LooksUp(k) \/ MutationSettles

Settles(f) == BagIn(f, pending) /\ pending' = pending (-) SetToBag({f})

C2_Step ==
  \A t \in ValidTables, i \in IdInputs :
    LET k == KeyOf(t, i)
    IN  cacheTtlMs > 0 /\ k \in DOMAIN fetchedAt /\ FindOneBegin(t, i)
          => IF now <= fetchedAt[k] + cacheTtlMs
             THEN ev'.adapter = "" /\ ev'.outcome = "ok" /\ pending' = pending
             ELSE ev'.adapter = "findOne" /\ LooksUp(k)

\* C2: with cacheTtlMs > 0, after a findOne of (table, id) has fetched the
\* record from the adapter and resolved, and while no mutation has begun or
\* resolved since, a findOne of the same (table, id) begun within the TTL of
\* that fetch makes no adapter call and resolves from the cache, and one begun
\* after the TTL has elapsed makes exactly one adapter.findOne call.
C2_OneFetchPerWindow == [][C2_Step]_vars

\* a findOne has just been answered from the cache, at a later clock reading
\* than the fetch and within its TTL
C2_Witness ==
  /\ ev.cached # Null
  /\ \E k \in DOMAIN fetchedAt :
       /\ fetchedAt[k] < now /\ now <= fetchedAt[k] + cacheTtlMs
       /\ k \in DOMAIN cache /\ cache[k].expiresAt = ev.cached[1]

C3_Step ==
  \A f \in BagToSet(pending) :
    f.op \in {"create", "createMany", "deleteMany"} /\ f.ok /\ Settles(f)
      => /\ \A k \in DOMAIN cache' : ~StartsWith(k, KeyOf(f.table, <<>>))
         /\ \A k \in DOMAIN cache :
              TableOf(k) # f.table => k \in DOMAIN cache' /\ cache'[k] = cache[k]

\* C3: when a create, createMany or deleteMany on table T resolves
\* successfully, the cache holds no key that starts with "T:", and every entry
\* of another table T' is still there with the same value and expiry, also
\* when T is a string prefix of T'.
C3_TableInvalidation == [][C3_Step]_vars

\* a bulk mutation of one table has just removed entries while an entry of
\* the table "ab", whose name the table "a" is a prefix of, is still cached
C3_Witness ==
  /\ ev.op \in {"create", "createMany", "deleteMany"}
  /\ ev.outcome = "ok"
  /\ ev.evicted >= 1
  /\ \E k \in DOMAIN cache : TableOf(k) = TblAB

C4_Step ==
  \A f \in BagToSet(pending) :
    f.op \in {"update", "delete"} /\ f.ok /\ Settles(f)
      => /\ DOMAIN cache' = DOMAIN cache \ {KeyOf(f.table, f.id)}
         /\ \A k \in DOMAIN cache' : cache'[k] = cache[k]

\* C4: when an update or delete of (table, id) resolves successfully, the
\* entry keyed "table:id" is gone and every other entry, of the same table or
\* of another, is unchanged in value and expiry.
C4_RecordInvalidation == [][C4_Step]_vars

\* an update or delete has just removed its entry and another entry remains
C4_Witness ==
  /\ ev.op \in {"update", "delete"}
  /\ ev.outcome = "ok"
  /\ ev.evicted = 1
  /\ cache # EmptyMap

\* the table names and ids the service must refuse
InvalidTable(t) ==
  \/ ~TABLE_NAME_RE(t)
  \/ allowedTables # Null /\ \A n \in 1..Len(allowedTables[1]) : allowedTables[1][n] # t
InvalidId(i) == ~ID_RE(i)

C5_Empty == cacheTtlMs = 0 => cache = EmptyMap

C5_Step ==
  \A t \in TableInputs, i \in IdInputs :
    cacheTtlMs = 0 /\ ~InvalidTable(t) /\ ~InvalidId(i) /\ FindOneBegin(t, i)
      => ev'.adapter = "findOne" /\ LooksUp(KeyOf(t, i))

\* C5: when cacheTtlMs is 0 or was not configured, the cache is empty in
\* every reachable state, and every findOne with a valid table and id calls
\* adapter.findOne.
C5_TtlZeroDisables == []C5_Empty /\ [][C5_Step]_vars

\* with the cache disabled a findOne has just resolved with the record the
\* adapter found, and nothing was cached
C5_Witness ==
  /\ cacheTtlMs = 0
  /\ ev.op = "findOne" /\ ev.outcome = "ok"
  /\ fetchedAt # EmptyMap
  /\ cache = EmptyMap

\* the call failed with VALIDATION, reached no adapter method and changed
\* nothing
Refused ==
  /\ ev'.outcome = "error" /\ ev'.code = "VALIDATION" /\ ev'.adapter = ""
  /\ UNCHANGED <<cache, tables, counter, pending>>

\* no call with an invalid table name, or with an invalid id where the
\* operation takes one, makes the step
NoInvalidCall ==
  /\ \A t \in TableInputs :
       InvalidTable(t) =>
         /\ \A o \in OptionInputs : ~FindManyBegin(t, o)
         /\ \A d \in DataInputs : ~CreateBegin(t, d)
         /\ \A d \in ItemInputs : ~CreateManyBegin(t, d)
         /\ \A fl \in FilterInputs : ~DeleteManyBegin(t, fl)
         /\ \A fl \in FilterInputs : ~CountBegin(t, fl)
  /\ \A t \in TableInputs, i \in IdInputs :
       InvalidTable(t) \/ InvalidId(i) =>
         /\ ~FindOneBegin(t, i)
         /\ ~DeleteBegin(t, i)
         /\ \A d \in DataInputs : ~UpdateBegin(t, i, d)

C6_Step == Refused \/ NoInvalidCall

\* C6: a findMany, findOne, create, createMany, update, delete, deleteMany or
\* count whose table name is invalid, or a findOne, update or delete whose id
\* is invalid, fails with a DataError of code VALIDATION, invokes no adapter
\* method and leaves the cache unchanged.
C6_ValidationFirst == [][C6_Step]_vars

\* a call has just been refused with VALIDATION while the cache held entries
C6_Witness ==
  /\ ev.outcome = "error" /\ ev.code = "VALIDATION" /\ ev.adapter = ""
  /\ cache # EmptyMap

C7_Step ==
  \A f \in BagToSet(pending) :
    f.op \in {"update", "delete"} /\ ~f.ok /\ f.code = "NOT_FOUND" /\ Settles(f)
      => ev'.outcome = "error" /\ ev'.code = "NOT_FOUND"

\* C7: when the adapter has answered an update or a delete with NOT_FOUND, the
\* error the service call fails with carries the code NOT_FOUND.
C7_NotFoundSurfaced == [][C7_Step]_vars

\* the step adds exactly the frame of a delete of (t, i) to the suspended calls
DeleteAnswered(t, i, ok, code) ==
  \E f \in BagToSet(pending') :
    /\ f.op = "delete" /\ f.table = t /\ f.id = i
    /\ f.ok = ok /\ f.code = code
    /\ pending' = pending (+) SetToBag({f})

Present(t, i) == \E n \in 1..Len(tables[t]) : tables[t][n].id = i

C8_Step ==
  \A i \in IdsMem :
    DeleteBegin(TblA, i) =>
      IF ~Present(TblA, i)
      THEN /\ tables' = tables
           /\ DeleteAnswered(TblA, i, FALSE, "NOT_FOUND")
      ELSE /\ \E n \in 1..Len(tables[TblA]) :
                /\ tables[TblA][n].id = i
                /\ tables'[TblA] = SubSeq(tables[TblA], 1, n - 1)
                                     \o SubSeq(tables[TblA], n + 1, Len(tables[TblA]))
           /\ DOMAIN tables' = DOMAIN tables
           /\ \A u \in DOMAIN tables \ {TblA} : tables'[u] = tables[u]
           /\ DeleteAnswered(TblA, i, TRUE, "")

C8_Gone ==
  \A d \in deleted : AdapterFindOne(tables, counter, d[1], d[2]).value = Null

\* C8: an in-memory delete of an id that is not in the table answers NOT_FOUND
\* and leaves every table as it was; a delete of an id that is in the table
\* removes that one record, the other records keeping their values and their
\* order and the other tables untouched; and in every later state
\* adapter.findOne of a deleted (table, id) answers null.
C8_InMemoryDelete == []C8_Gone /\ [][C8_Step]_vars

\* the second of three records has just been deleted: the first and the third
\* remain, in that order
C8_Witness ==
  /\ ev.op = "delete" /\ ev.outcome = "pending"
  /\ <<TblA, uuid(2)>> \in deleted
  /\ Len(tables[TblA]) = 2
  /\ tables[TblA][1].id = uuid(1)
  /\ tables[TblA][2].id = uuid(3)

\* an update or delete of (t, i) has taken effect and has not yet resolved
Unresolved(t, i) ==
  \E f \in BagToSet(pending) :
    f.op \in {"update", "delete"} /\ f.ok /\ f.table = t /\ f.id = i

\* C9: with the cache enabled and calls interleaving at their awaits, an entry
\* cached under "table:id" is the record the adapter holds for (table, id),
\* except while an update or delete of (table, id) that has taken effect is
\* still to resolve: once it has resolved no entry fetched before it remains.
C9_NoStaleEntry ==
  \A i \in IdInputs :
    KeyOf(TblA, i) \in DOMAIN cache =>
      \/ AdapterFindOne(tables, counter, TblA, i).value
           = Some(cache[KeyOf(TblA, i)].data)
      \/ Unresolved(TblA, i)

C10_Bound == \A ip \in DOMAIN forwarded : forwarded[ip].n <= maxRequests

C10_Step ==
  \A xff \in HeaderInputs, xri \in RealIpInputs :
    Window(ClientKey(xff, xri)).n >= maxRequests /\ RateLimit(xff, xri)
      => rlEv'.status = 429 /\ ~rlEv'.forwarded /\ inflight' = inflight

\* C10: with maxRequests >= 1, in every window of every client key at most
\* maxRequests requests are passed on to next(), and a request that arrives
\* when maxRequests requests of its key have been passed on in the current
\* window is answered 429 and not passed on, whatever requests are in flight
\* and whenever the cleanup timer fires.
C10_AtMostMaxPerWindow == []C10_Bound /\ [][C10_Step]_vars

\* a request has just been answered 429 in a window in which maxRequests
\* requests were passed on, while passed-on requests are still in flight and
\* another key has a window of its own
C10_Witness ==
  /\ rlEv.kind = "request" /\ rlEv.status = 429
  /\ forwarded[rlEv.ip].n = maxRequests
  /\ inflight > 0
  /\ \E ip \in DOMAIN forwarded : ip # rlEv.ip

\* the filters and sort keys of a findMany call
FiltersOf(o) == IF "filters" \in DOMAIN o THEN o.filters ELSE <<>>
OrderOf(o) == IF "orderBy" \in DOMAIN o THEN o.orderBy ELSE <<>>

\* positions of the records of the table that satisfy every filter
Matching(t, o) ==
  {n \in 1..Len(tables[t]) :
     \A m \in 1..Len(FiltersOf(o)) : FilterHolds(tables[t][n], FiltersOf(o)[m])}

\* the records that satisfy every filter, in the order findMany sorts them
Listed(t, o) ==
  LET filtered == applyFilters(tables[t], FiltersOf(o))
  IN  IF Len(OrderOf(o)) > 0 THEN SortRecords(filtered, OrderOf(o)) ELSE filtered

C11_Step ==
  \A o \in FindInputs :
    MemFindMany(TblA, o) =>
      LET list == Listed(TblA, o)
          limit == IF "limit" \in DOMAIN o THEN o.limit ELSE 50
          offset == IF "offset" \in DOMAIN o THEN o.offset ELSE 0
          last == IF offset + limit < Len(list) THEN offset + limit ELSE Len(list)
      IN  /\ res'.limit = limit
          /\ res'.offset = offset
          /\ res'.count = Cardinality(Matching(TblA, o))
          /\ Len(list) = res'.count
          /\ Len(res'.data) = (IF last > offset THEN last - offset ELSE 0)
          /\ \A k \in 1..Len(res'.data) : res'.data[k] = list[offset + k]

\* C11: the result of an in-memory findMany holds as data exactly the elements
\* at positions [offset, offset + limit) of the filtered and sorted records (as
\* many as there are), as count the number of records that satisfy every
\* filter, and as limit and offset the values asked for, 50 and 0 when absent.
C11_Page == [][C11_Step]_vars

\* three records, limit 2 and offset 1: two records, the second and the third,
\* and count 3
C11_Witness ==
  /\ res.op = "findMany"
  /\ res.options = [limit |-> 2, offset |-> 1]
  /\ Len(tables[TblA]) = 3
  /\ Len(res.data) = 2 /\ res.count = 3
  /\ res.data[1].id = uuid(2) /\ res.data[2].id = uuid(3)

\* C12: for an in-memory findMany with offset >= 0 and limit >= 0, hasMore is
\* true exactly when offset plus the number of records in data is less than
\* count.
C12_HasMore ==
  res.op = "findMany" /\ res.offset >= 0 /\ res.limit >= 0
    => (res.hasMore <=> res.offset + Len(res.data) < res.count)

\* a page that ends exactly at the last record: no more; and the case is one
\* with records beyond an earlier page
C12_Witness ==
  /\ res.op = "findMany"
  /\ res.offset = 1 /\ res.limit = 2 /\ res.count = 3
  /\ Len(res.data) = 2 /\ ~res.hasMore

Letters == Lower \cup Upper

\* the name starts with a letter or underscore and continues with at most 62
\* letters, digits or underscores
WellFormedName(t) ==
  /\ Len(t) >= 1 /\ Len(t) <= 63
  /\ t[1] \in Letters \cup {"_"}
  /\ \A n \in 2..Len(t) : t[n] \in Letters \cup Digit \cup {"_"}

OnAllowList(t) ==
  allowedTables = Null \/ \E n \in 1..Len(allowedTables[1]) : allowedTables[1][n] = t

\* C13: validateTable accepts a name exactly when the name is well formed and,
\* with an allow-list configured, is on the list; it rejects every other name
\* with VALIDATION.
C13_ValidateTable ==
  res.op = "validateTable" =>
    IF WellFormedName(res.table) /\ OnAllowList(res.table)
    THEN res.code = ""
    ELSE res.code = "VALIDATION"

\* a well-formed name that is not on the configured allow-list was rejected
C13_Witness ==
  /\ res.op = "validateTable"
  /\ allowedTables # Null
  /\ WellFormedName(res.table) /\ ~OnAllowList(res.table)
  /\ res.code = "VALIDATION"

\* the text before the first colon of a directive (all of it without a colon)
Before(s) ==
  IF \E n \in 1..Len(s) : s[n] = ":"
  THEN SubSeq(s, 1, (CHOOSE n \in 1..Len(s) :
                       s[n] = ":" /\ \A m \in 1..(n - 1) : s[m] # ":") - 1)
  ELSE s

HasColon(s) == \E n \in 1..Len(s) : s[n] = ":"

\* the text after the first colon of a directive that has one
After(s) == SubSeq(s, Len(Before(s)) + 2, Len(s))

Desc == <<"d", "e", "s", "c">>

\* the directives parseOrderBy was called with
Given == Items(res.raw)

\* parseOrderBy, as claimed: one (field, direction) per directive in input
\* order, desc exactly when the text after the first colon is exactly "desc"
C17_AfterFirstColon ==
  res.op = "parseOrderBy" /\ res.value # Null =>
    /\ Len(res.value[1]) = Len(Given)
    /\ \A n \in 1..Len(Given) :
         /\ res.value[1][n].field = Before(Given[n])
         /\ res.value[1][n].direction =
              (IF HasColon(Given[n]) /\ After(Given[n]) = Desc THEN "desc" ELSE "asc")

\* C17: parseOrderBy maps each directive, in input order, to (field,
\* direction): field is the text before the first colon and direction is desc
\* exactly when the text between the first colon and the next colon (or the
\* end of the directive) is exactly "desc", asc in every other case.
C17_SecondSegment ==
  res.op = "parseOrderBy" /\ res.value # Null =>
    /\ Len(res.value[1]) = Len(Given)
    /\ \A n \in 1..Len(Given) :
         /\ res.value[1][n].field = Before(Given[n])
         /\ res.value[1][n].direction =
              (IF HasColon(Given[n]) /\ Before(After(Given[n])) = Desc
               THEN "desc" ELSE "asc")

\* ["n:desc", "a"] has been parsed to [(n, desc), (a, asc)]
C17_Witness ==
  /\ res.op = "parseOrderBy"
  /\ res.raw = ManyParam(<<Join(<<<<"n">>, Desc>>), <<"a">>>>)
  /\ res.value = Some(<<[field |-> <<"n">>, direction |-> "desc"],
                        [field |-> <<"a">>, direction |-> "asc"]>>)

\* the number of colons of a string
Colons(s) == Cardinality({k \in 1..Len(s) : s[k] = ":"})

\* the items of a filter parameter that have fewer than three segments
Malformed(raw) ==
  IF Falsy(raw) THEN {}
  ELSE {Items(raw)[n] : n \in {k \in 1..Len(Items(raw)) : Colons(Items(raw)[k]) < 2}}

NoServiceCall == UNCHANGED <<ev, pending, tables, cache, counter>>

C14_Step ==
  \A fl \in {x \in FilterParams : Malformed(x) # {}} :
    \A t \in RouteTables, o \in OrderParams, l \in LimitParams :
      GetManyBegin(t, fl, o, l)
        => /\ res'.error
           /\ res'.caught = "VALIDATION"
           /\ \E item \in Malformed(fl) : Includes(res'.message, item)
           /\ NoServiceCall

\* C14: a list request whose filter parameter has an item with fewer than
\* three colon-separated segments fails with an error of code VALIDATION whose
\* message names that item, and reaches no service call.
C14_MalformedFilter == [][C14_Step]_vars

C15_Step ==
  /\ \A f \in BagToSet(pending) :
       Settles(f)
         => /\ f.op = "findOne" /\ f.ok /\ f.value = Null => res'.status = 404
            /\ f.op \in {"update", "delete"} /\ ~f.ok /\ f.code = "NOT_FOUND"
                 => res'.status = 404
  /\ res' # res /\ res'.caught \in {"VALIDATION", "ADAPTER"}
       => res'.status = 400 /\ res'.error

\* C15: a GET, PUT or DELETE of /:table/:id whose record does not exist is
\* answered with status 404, and a request that fails validation or in the
\* backend is answered with status 400 and a body {error: message}.
C15_Statuses == [][C15_Step]_vars

\* the step is a call of findMany or count that fails validation of a table
ListRefused ==
  \E t \in {x \in TableInputs : InvalidTable(x)} :
    \/ \E o \in OptionInputs : FindManyBegin(t, o)
    \/ \E fl \in FilterInputs : CountBegin(t, fl)

C16_Step ==
  /\ \A k \in DOMAIN cache' \ DOMAIN cache :
       \E t \in ValidTables, i \in {x \in IdInputs : ID_RE(x)} : k = KeyOf(t, i)
  /\ ev'.op \in {"findMany", "count"}
       => /\ cache' = cache
          /\ ev'.cached = Null
          /\ ev' # ev
               => \/ ev'.adapter = ev'.op /\ Cardinality(BagToSet(pending')) >= 1
                  \/ \E f \in BagToSet(pending) : f.op = ev'.op /\ Settles(f)
                  \/ ev'.code = "VALIDATION" /\ ListRefused

\* C16: every key written to the cache has the form table:id; a findMany or a
\* count leaves the cache as it is and is served nothing from it; and every
\* findMany or count on a valid table reaches the adapter.
C16_ListsUncached == [][C16_Step]_vars

C16_Witness ==
  /\ ev.op \in {"findMany", "count"} /\ ev.outcome = "ok"
  /\ \E t \in ValidTables, i \in IdInputs : KeyOf(t, i) \in DOMAIN cache

DataErrorCodes == {"VALIDATION", "NOT_FOUND", "ADAPTER", "UNKNOWN"}

C18_Step ==
  /\ \A f \in BagToSet(pending) :
       f.op \in Mutations /\ ~f.ok /\ Settles(f)
         => /\ ev'.op = f.op /\ ev'.outcome = "error" /\ ev'.code \in DataErrorCodes
            /\ cache' = cache
  /\ ev' # ev /\ ev'.op \in Mutations /\ ev'.outcome = "pending" => cache' = cache

\* C18: when the adapter call of a create, createMany, update, delete or
\* deleteMany fails, the call raises a DataError and the cache is the same
\* after the call as before it.
C18_FailureKeepsCache == [][C18_Step]_vars

C18_Witness ==
  /\ ev.op \in {"create", "createMany", "deleteMany"}
  /\ ev.outcome = "error" /\ ev.code = "ADAPTER"
  /\ cache # EmptyMap

\* the decision of the limiter on a request of key ip when its store is st
Admits(st, ip) ==
  \/ ip \notin DOMAIN st
  \/ st[ip].resetAt < now
  \/ st[ip].count + 1 <= maxRequests

C19_Step ==
  /\ \A k \in DOMAIN store \ DOMAIN store' : store[k].resetAt < now
  /\ rlEv'.kind = "cleanup"
       => \A k \in DOMAIN store' : k \in DOMAIN store /\ store'[k] = store[k]
  /\ \A k \in DOMAIN store' : k \in DOMAIN unswept' /\ store'[k] = unswept'[k]
  /\ \A xff \in HeaderInputs, xri \in RealIpInputs :
       RateLimit(xff, xri)
         => /\ rlEv'.forwarded = Admits(unswept, ClientKey(xff, xri))
            /\ rlEv'.status = IF Admits(unswept, ClientKey(xff, xri)) THEN 200 ELSE 429

\* C19: an entry leaves the store only when its resetAt is before now, the
\* sweep changes no entry it keeps, and every request is admitted or rejected
\* exactly as by the same limiter whose store is never swept.
C19_SweepInvisible == [][C19_Step]_vars

\* the sweep has dropped the expired entry of one key and kept the entry of
\* another
C19_Witness ==
  /\ rlEv.kind = "cleanup"
  /\ \E k \in DOMAIN unswept : k \notin DOMAIN store /\ unswept[k].count > maxRequests
  /\ store # EmptyMap

C20_Step ==
  /\ \A k \in DOMAIN store \cap DOMAIN store' :
       store'[k].resetAt # store[k].resetAt
         => store[k].resetAt < now /\ store'[k] = [count |-> 1, resetAt |-> now + windowMs]
  /\ \A k \in DOMAIN store' \ DOMAIN store :
       store'[k] = [count |-> 1, resetAt |-> now + windowMs]
  /\ \A xff \in HeaderInputs, xri \in RealIpInputs :
       LET ip == ClientKey(xff, xri)
       IN  /\ ip \in DOMAIN unswept
           /\ unswept[ip].count > maxRequests /\ unswept[ip].resetAt < now
           /\ RateLimit(xff, xri)
           => /\ rlEv'.forwarded /\ rlEv'.status = 200
              /\ store'[ip] = [count |-> 1, resetAt |-> now + windowMs]

\* C20: the resetAt of a key is set only when a request opens a new window
\* (no entry, or resetAt before now) and no later request changes it; the
\* first request of a rejected key after its resetAt has passed is admitted
\* and opens a new window with count 1.
C20_FixedWindow == [][C20_Step]_vars

\* a key that had been rejected has just been admitted into a new window
C20_Witness ==
  /\ rlEv.kind = "request" /\ rlEv.forwarded
  /\ rlEv.prior > maxRequests
  /\ store[rlEv.ip] = [count |-> 1, resetAt |-> now + windowMs]

C21_Distinct ==
  \A t \in DOMAIN tables :
    \A m \in 1..Len(tables[t]), n \in 1..Len(tables[t]) :
      m # n => tables[t][m].id # tables[t][n].id

C21_Step ==
  \A i \in IdsCalled, d \in UpdateInputs :
    MemUpdate(TblA, i, d)
      => /\ Len(tables'[TblA]) = Len(tables[TblA])
         /\ \A n \in 1..Len(tables[TblA]) : tables'[TblA][n].id = tables[TblA][n].id
         /\ res'.ok => res'.value[1].id = i

\* C21: in the in-memory adapter the ids of the records of a table are
\* pairwise distinct after any sequence of create, createMany, update, delete
\* and deleteMany, and an update changes neither the id of any record nor the
\* number of records, even when its data holds an id field.
C21_IdsKept == []C21_Distinct /\ [][C21_Step]_vars

\* a record has just been updated with data that holds the id of another
\* record of the table
C21_Witness ==
  /\ res.op = "update" /\ res.ok
  /\ "id" \in DOMAIN res.args.data
  /\ res.args.data.id # res.args.id
  /\ \E n \in 1..Len(tables[TblA]) : tables[TblA][n].id = res.args.data.id
  /\ \E n \in 1..Len(tables[TblA]) : tables[TblA][n].id = res.args.id

PageLimits == {0, 1, 50}
PageOffsets == {0, 2}

\* the records of the table that do not satisfy every filter, in table order
NonMatching(t, fl) ==
  SelectSeqBy(tables[t],
              [n \in 1..Len(tables[t]) |-> n \notin Matching(t, [filters |-> fl])])

C22_Step ==
  /\ \A fl \in AdapterFilters :
       MemCount(TblA, fl)
         => /\ res'.num = Cardinality(Matching(TblA, [filters |-> fl]))
            /\ \A l \in PageLimits, o \in PageOffsets :
                 AdapterFindMany(tables, counter, TblA,
                                 [filters |-> fl, limit |-> l, offset |-> o]).num
                   = res'.num
  /\ \A fl \in AdapterFilters :
       MemDeleteMany(TblA, fl)
         => /\ res'.num = AdapterCount(tables, counter, TblA, fl).num
            /\ AdapterCount(tables', counter', TblA, fl).num = 0
            /\ tables'[TblA] = NonMatching(TblA, fl)

\* C22: in the in-memory adapter count(table, filters) is the count field of
\* findMany(table, {filters, limit, offset}) whatever limit and offset are;
\* deleteMany(table, filters) returns that number, leaves no record that
\* count(table, filters) counts, and leaves the other records as they were.
C22_CountAgrees == [][C22_Step]_vars

\* a deleteMany with filters has removed two records of three and kept the
\* third
C22_Witness ==
  /\ res.op = "deleteMany" /\ res.num = 2
  /\ Len(res.args.filters) > 0
  /\ Len(tables[TblA]) = 1

Generated == {"id", "created_at", "updated_at"}

\* record r is what create makes of data d: the fields of d, and an id and
\* two timestamps of its own
CreatedFrom(r, d) ==
  /\ DOMAIN r = DOMAIN d \cup Generated
  /\ \A f \in DOMAIN d \ Generated : r[f] = d[f]

C23_Step ==
  \A items \in BatchInputs :
    MemCreateMany(TblA, items)
      => /\ res'.ok
         /\ Len(res'.value) = Len(items)
         /\ \A k \in 1..Len(items) : CreatedFrom(res'.value[k], items[k])
         /\ tables'[TblA] = tables[TblA] \o res'.value

\* C23: an in-memory createMany(table, items) returns as many records as there
\* are items, the i-th made from items[i], and appends exactly these records
\* to the table in the order of the items.
C23_BatchInOrder == [][C23_Step]_vars

\* a batch of three items with different values has just been created
C23_Witness ==
  /\ res.op = "createMany" /\ Len(res.value) = 3
  /\ res.value[1].val = 0 /\ res.value[2].val = 1 /\ res.value[3].val = 0
  /\ tables[TblA] = res.value
  /\ res.value[1].id # IdUnknown

====
